---- MODULE Spec2Model ----
(***************************************************************************)
(* Model of the "Pairs" game recommendation application: the validated     *)
(* value types (models/account.py, models/model.py,                        *)
(* models/custom_pydantic.py), the Account and History tables behind the   *)
(* three repositories (services/), the per-session state (session.py) and  *)
(* the six page controllers (pages/), each script run of a session being   *)
(* one step.                                                               *)
(*                                                                         *)
(* A Python str is a sequence of one-character strings, except that an     *)
(* option label word and the literal marker of the recommended-game line   *)
(* are single elements.  Japanese literals of the source are written as    *)
(* ASCII names.  Every value that Python tells apart by type is a record   *)
(* with a field naming its type, so that any two values can be compared.   *)
(***************************************************************************)
EXTENDS Naturals, Integers, Sequences, FiniteSets, TLC

VARIABLES
    account,        \* the account table: a set of Account rows
    history,        \* the history table: a set of History rows
    next_id,        \* the history table's AUTO_INCREMENT counter
    session_state,  \* per session: st.session_state's PAGE_ID and USER_ID slots
    deleting,       \* per session: the argument of a DeletePage.__delete call
                    \* that is between its two repository calls, or None
    last,           \* what the last script run did and showed
    call            \* the last direct call of a value type or of a repository:
                    \* its name, its arguments and what it gave

vars == <<account, history, next_id, session_state, deleting, last, call>>

None == [none |-> TRUE]

RECURSIVE Rep(_, _)
Rep(c, n) ==
    IF n = 0 THEN <<>>
    ELSE Rep(c, n \div 2) \o Rep(c, n \div 2) \o (IF n % 2 = 1 THEN <<c>> ELSE <<>>)

-----------------------------------------------------------------------------
(* Bounds of the model.                                                    *)

\* History rows ever inserted (the AUTO_INCREMENT counter stops there).
MaxHistoryRows == 2

\* Distinct salts bcrypt.gensalt() can draw.
MaxSalt == 1

Sessions == {"s1"}

-----------------------------------------------------------------------------
(* models/const.py                                                         *)

PageIDNames == {"LOGIN", "REGISTER", "RECOMMEND", "ACCOUNT_INFO", "HISTORY", "DELETE"}

\* An enum member, const.PageID.LOGIN or account.Sex.MALE.
Member(name) == [member |-> name]

\* A member's name, const.PageID.LOGIN.name: a str.
Name(name) == [str |-> name]

PageID == {Member(n) : n \in PageIDNames}

\* account.Sex: member name |-> value (the Japanese labels for male, female, other).
Sex == ("MALE" :> "dansei") @@ ("FEMALE" :> "josei") @@ ("OTHER" :> "sonota")

\* const.Genre, const.Hardware, const.GameFormat, const.WorldView: the values,
\* each a str.  A Japanese label is one element named after its member.
GenreOptions ==
    { <<"ACTION">>, <<"ADVENTURE">>, <<"RPG">>, <<"SHOOTING">>, <<"SIMULATION">>,
      <<"SPORTS">>, <<"TRIVIA">>, <<"PUZZLE">>, <<"MUSIC">>, <<"RACING">> }

HardwareOptions ==
    { <<"Windows">>, <<"Mac">>, <<"iOS">>, <<"Android">>, <<"Switch">>,
      <<"Play", " ", "Station">> }

GameFormatOptions ==
    { <<"2D">>, <<"3D">>, <<"HD2D">>, <<"DOT">>, <<"ANIME">>, <<"REAL">> }

WorldViewOptions ==
    { <<"MODERN">>, <<"FUTURE">>, <<"ANCIENT">>, <<"RECENT">>, <<"MIDDLE_AGES">>,
      <<"FANTASY">>, <<"SF">>, <<"STEAMPUNK">>, <<"HORROR">>, <<"BATTLE_ROYALE">> }

-----------------------------------------------------------------------------
(* Python's str operations used by the value types.                        *)

Whitespace == {" ", "\t", "\n"}

Min(S) == CHOOSE x \in S : \A y \in S : x <= y

\* str.split(sep)
RECURSIVE split(_, _)
split(value, sep) ==
    LET n == Len(value)
        k == Len(sep)
        hits == {i \in 1..(n - k + 1) : SubSeq(value, i, i + k - 1) = sep}
    IN  IF hits = {}
        THEN <<value>>
        ELSE <<SubSeq(value, 1, Min(hits) - 1)>>
             \o split(SubSeq(value, Min(hits) + k, n), sep)

\* str.strip()
RECURSIVE strip(_)
strip(s) ==
    IF s = <<>> THEN s
    ELSE IF Head(s) \in Whitespace THEN strip(Tail(s))
    ELSE IF s[Len(s)] \in Whitespace THEN strip(SubSeq(s, 1, Len(s) - 1))
    ELSE s

DigitChar == <<"0", "1", "2", "3", "4", "5", "6", "7", "8", "9">>

\* str(n) of a natural number, as an f-string formats it
RECURSIVE str(_)
str(n) ==
    IF n < 10 THEN <<DigitChar[n + 1]>>
    ELSE str(n \div 10) \o <<DigitChar[(n % 10) + 1]>>

-----------------------------------------------------------------------------
(* Value types: models/account.py, models/model.py,                        *)
(* models/custom_pydantic.py.  A constructor gives the validated model, or *)
(* ValidationError when pydantic rejects the value.                        *)

ValidationError == [raise |-> "pydantic.ValidationError"]

ValueError == [raise |-> "ValueError"]

MinUserIDLen == 5
MaxUserIDLen == 20
MinPasswordLen == 8
MinAge == 0
MaxAge == 100
MinPrice == 0
MaxPrice == 10000
PriceStep == 1000
MaxDetailLen == 1000
MaxRecommendedGameLen == 100

Letters ==
    { "a", "b", "c", "d", "e", "f", "g", "h", "i", "j", "k", "l", "m", "n", "o",
      "p", "q", "r", "s", "t", "u", "v", "w", "x", "y", "z" }

Digits == { DigitChar[i] : i \in 1..10 }

\* A UserID that accepts every string: the fault that property C10 excludes.
UserID_unchecked(user_id) == [user_id |-> user_id]

\* account.UserID
UserID(user_id) ==
    IF Len(user_id) >= MinUserIDLen /\ Len(user_id) <= MaxUserIDLen
    THEN [user_id |-> user_id]
    ELSE ValidationError

\* A validate_password without the check for a number: the fault that property
\* C14 excludes.
validate_password_without_digit(password) ==
    IF Len(password) < MinPasswordLen THEN FALSE
    ELSE IF ~ \E i \in 1..Len(password) : password[i] \in Letters THEN FALSE
    ELSE TRUE

\* account.Password.validate_password: TRUE when it returns the password,
\* FALSE when it raises ValueError
validate_password(password) ==
    IF Len(password) < MinPasswordLen THEN FALSE
    ELSE IF ~ \E i \in 1..Len(password) : password[i] \in Letters THEN FALSE
    ELSE IF ~ \E i \in 1..Len(password) : password[i] \in Digits THEN FALSE
    ELSE TRUE

\* account.Password
Password(password) ==
    IF validate_password(password) THEN [password |-> password] ELSE ValidationError

\* account.Age
Age(age) ==
    IF age >= MinAge /\ age <= MaxAge THEN [age |-> age] ELSE ValidationError

\* bcrypt.hashpw(password, salt): the salt followed by a one-way digest of salt
\* and password, a symbolic term that no other salt or password gives.
hashpw(password, salt) == <<"$2b$", salt, <<"digest", salt, password>>>>

\* A checkpw that accepts every password for a well-formed hash: the fault
\* that property C2 excludes.
checkpw_any_password(password, hashed) == hashed[1] = "$2b$"

\* bcrypt.checkpw(password, hashed): hashes the password with the salt the hash
\* carries and compares.
checkpw(password, hashed) == hashpw(password, hashed[2]) = hashed

\* account.HashedPassword.from_password, for the salt bcrypt.gensalt() drew
from_password(password_model, salt) ==
    [hashed_password |-> hashpw(password_model.password, salt)]

\* A verify that compares the stored hash with the password as typed: the
\* fault that property C16 excludes.
verify_unhashed(hashed_password_model, password_model) ==
    password_model.password = hashed_password_model.hashed_password

\* account.HashedPassword.verify
verify(hashed_password_model, password_model) ==
    checkpw(password_model.password, hashed_password_model.hashed_password)

\* A validator that compares the tokens as split, without str.strip: the
\* fault that property C12 excludes.
make_option_validator_unstripped(valid_options, value) ==
    IF value = <<>> THEN TRUE
    ELSE LET tokens == split(value, <<",", " ">>)
         IN  {tokens[i] : i \in 1..Len(tokens)} \ valid_options = {}

\* custom_pydantic.make_option_validator: TRUE when it returns the value,
\* FALSE when it raises ValueError
make_option_validator(valid_options, value) ==
    IF value = <<>> THEN TRUE
    ELSE LET tokens == split(value, <<",", " ">>)
             value_options == {strip(tokens[i]) : i \in 1..Len(tokens)}
         IN  value_options \ valid_options = {}

\* model.Genre
Genre(genre) ==
    IF make_option_validator(GenreOptions, genre) THEN [genre |-> genre]
    ELSE ValidationError

\* model.Hardware
Hardware(hardware) ==
    IF make_option_validator(HardwareOptions, hardware) THEN [hardware |-> hardware]
    ELSE ValidationError

\* model.GameFormat
GameFormat(game_format) ==
    IF make_option_validator(GameFormatOptions, game_format)
    THEN [game_format |-> game_format]
    ELSE ValidationError

\* model.WorldView
WorldView(world_view) ==
    IF make_option_validator(WorldViewOptions, world_view)
    THEN [world_view |-> world_view]
    ELSE ValidationError

\* A Price without validate_price: the fault that property C13 excludes.
Price_unordered(low_price, high_price) ==
    IF  /\ low_price >= MinPrice /\ low_price <= MaxPrice /\ low_price % PriceStep = 0
        /\ high_price >= MinPrice /\ high_price <= MaxPrice /\ high_price % PriceStep = 0
    THEN [low_price |-> low_price, high_price |-> high_price]
    ELSE ValidationError

\* model.Price: the field constraints, then validate_price
Price(low_price, high_price) ==
    IF  /\ low_price >= MinPrice /\ low_price <= MaxPrice /\ low_price % PriceStep = 0
        /\ high_price >= MinPrice /\ high_price <= MaxPrice /\ high_price % PriceStep = 0
        /\ ~ (low_price > high_price)
    THEN [low_price |-> low_price, high_price |-> high_price]
    ELSE ValidationError

\* A display string without the currency sign: the fault that property C20
\* excludes.
price_without_unit(price_model) ==
    str(price_model.low_price) \o <<" ", "~", " ">> \o str(price_model.high_price)

\* model.Price.price: the display string ("en" is the yen sign of the source)
price(price_model) ==
    str(price_model.low_price) \o <<"en", " ", "~", " ">>
    \o str(price_model.high_price) \o <<"en">>

\* model.Detail
Detail(detail) ==
    IF Len(detail) <= MaxDetailLen THEN [detail |-> detail] ELSE ValidationError

\* The literal the pattern of RecommendedGame.from_text starts with
\* ("suisen ge-mu: ", colon and space included), one element of a text.
Marker == "RecommendedGame: "

\* A RecommendedGame of any length: the fault that property C11 excludes.
RecommendedGame_unchecked(recommended_game) == [recommended_game |-> recommended_game]

\* model.RecommendedGame
RecommendedGame(recommended_game) ==
    IF Len(recommended_game) <= MaxRecommendedGameLen
    THEN [recommended_game |-> recommended_game]
    ELSE ValidationError

\* A from_text whose group runs to the end of the text: the fault that
\* property C15 excludes.
from_text_to_end_of_text(recommended_text) ==
    LET n == Len(recommended_text)
        hits == {i \in 1..n : recommended_text[i] = Marker}
    IN  IF hits = {} THEN ValueError
        ELSE RecommendedGame(SubSeq(recommended_text, Min(hits) + 1, n))

\* model.RecommendedGame.from_text: re.search finds the first marker, the
\* group runs to the end of that line.
from_text(recommended_text) ==
    LET n == Len(recommended_text)
        hits == {i \in 1..n : recommended_text[i] = Marker}
    IN  IF hits = {} THEN ValueError
        ELSE LET start == Min(hits) + 1
                 ends == {j \in start..n : recommended_text[j] = "\n"}
                 stop == IF ends = {} THEN n ELSE Min(ends) - 1
             IN  RecommendedGame(SubSeq(recommended_text, start, stop))

-----------------------------------------------------------------------------
(* Entity records and repositories: models/account.py, models/model.py,    *)
(* services/.  A repository call gives the table it leaves and what it     *)
(* raised ("none": it returned).                                           *)

\* account.Account.from_model
Account_from_model(user_id_model, hashed_password_model, age_model, sex) ==
    [ user_id |-> user_id_model.user_id,
      hashed_password |-> hashed_password_model.hashed_password,
      age |-> age_model.age,
      sex |-> Sex[sex.member] ]

\* model.History.from_model; the id is the one the table assigns on insertion
History_from_model(id, user_id_model, genre_model, price_model, hardware_model, game_format_model, world_view_model, detail_model, recommended_game_model) ==
    [ id |-> id,
      user_id |-> user_id_model.user_id,
      genre |-> genre_model.genre,
      price |-> price(price_model),
      hardware |-> hardware_model.hardware,
      game_format |-> game_format_model.game_format,
      world_view |-> world_view_model.world_view,
      detail |-> detail_model.detail,
      recommended_game |-> recommended_game_model.recommended_game ]

\* session.get(account.Account, user_id): the row of that primary key, or None
get_account(table, user_id) ==
    IF \E row \in table : row.user_id = user_id
    THEN CHOOSE row \in table : row.user_id = user_id
    ELSE None

\* session.get(history.History, history_id)
get_history(table, history_id) ==
    IF \E row \in table : row.id = history_id
    THEN CHOOSE row \in table : row.id = history_id
    ELSE None

\* An add that overwrites the row of an existing user id instead of raising:
\* the fault that property C3 excludes.
AccountRepository_add_overwriting(table, user_id, password, age, sex, salt) ==
    [raised |-> "none",
     table |-> {row \in table : row.user_id # user_id.user_id} \cup
         {Account_from_model(user_id, from_password(password, salt), age, sex)}]

\* AccountRepository.add: the insertion violates the primary key when a row
\* of that user id exists, and commit raises IntegrityError.
AccountRepository_add(table, user_id, password, age, sex, salt) ==
    IF get_account(table, user_id.user_id) # None
    THEN [raised |-> "sqlalchemy.exc.IntegrityError", table |-> table]
    ELSE [raised |-> "none",
          table |-> table \cup
              {Account_from_model(user_id, from_password(password, salt), age, sex)}]

\* AccountRepository.fetch
AccountRepository_fetch(table, user_id_model) ==
    get_account(table, user_id_model.user_id)

\* AccountRepository.delete: session.delete(None) raises UnmappedInstanceError.
AccountRepository_delete(table, user_id_model) ==
    IF get_account(table, user_id_model.user_id) = None
    THEN [raised |-> "sqlalchemy.orm.exc.UnmappedInstanceError", table |-> table]
    ELSE [raised |-> "none",
          table |-> table \ {get_account(table, user_id_model.user_id)}]

\* UserRepository.login: the value returned, or the exception raised.  The
\* hashed password is read from the fetched row before the row is compared
\* with None.
UserRepository_login(table, user_id_model, password_model) ==
    LET account_model == get_account(table, user_id_model.user_id)
    IN  IF account_model = None
        THEN [raise |-> "AttributeError"]
        ELSE IF  /\ account_model # None
                 /\ verify([hashed_password |-> account_model.hashed_password],
                           password_model)
             THEN [value |-> TRUE]
             ELSE [value |-> FALSE]

\* An add that stores nothing: the fault that property C7 excludes.
HistoryRepository_add_nothing(table, id, user_id, genre, price_model, hardware, game_format, world_view, detail, recommended_game) ==
    table

\* HistoryRepository.add: one row, with the next AUTO_INCREMENT id
HistoryRepository_add(table, id, user_id, genre, price_model, hardware, game_format, world_view, detail, recommended_game) ==
    table \cup {History_from_model(id, user_id, genre, price_model, hardware,
                                   game_format, world_view, detail, recommended_game)}

\* A set of History rows in storage order (by id)
RECURSIVE by_id(_)
by_id(rows) ==
    IF rows = {} THEN <<>>
    ELSE LET first == CHOOSE row \in rows : \A other \in rows : row.id <= other.id
         IN  <<first>> \o by_id(rows \ {first})

\* A search without its where clause: the fault that property C18 excludes.
HistoryRepository_search_everything(table, user_id_model) == by_id(table)

\* HistoryRepository.search
HistoryRepository_search(table, user_id_model) ==
    by_id({row \in table : row.user_id = user_id_model.user_id})

\* A delete that returns silently when no row has the id: the fault that
\* property C17 excludes.
HistoryRepository_delete_silently(table, history_id) ==
    [raised |-> "none", table |-> table \ {row \in table : row.id = history_id}]

\* HistoryRepository.delete
HistoryRepository_delete(table, history_id) ==
    IF get_history(table, history_id) = None
    THEN [raised |-> "NotFoundError", table |-> table]
    ELSE [raised |-> "none", table |-> table \ {get_history(table, history_id)}]

\* A delete_all without its where clause: the fault that property C19
\* excludes.
HistoryRepository_delete_all_users(table, user_id_model) == {}

\* A delete_all that deletes nothing: the fault that property C4 excludes.
HistoryRepository_delete_nothing(table, user_id_model) == table

\* HistoryRepository.delete_all
HistoryRepository_delete_all(table, user_id_model) ==
    {row \in table : row.user_id # user_id_model.user_id}

-----------------------------------------------------------------------------
(* session.py: the slots of st.session_state a SessionManager owns.  The   *)
(* USERBOX slot is set to None at construction and never used again.       *)

\* SessionManager.__init__
SessionManager_init == [PAGE_ID |-> Name("LOGIN"), USER_ID |-> None]

\* SessionManager.set_page_id
set_page_id(state, page_id) == [state EXCEPT !.PAGE_ID = page_id]

\* SessionManager.set_user_id
set_user_id(state, user_id) == [state EXCEPT !.USER_ID = user_id]

\* SessionManager.get_user_id
get_user_id(state) == state.USER_ID

-----------------------------------------------------------------------------
(* The page controllers: pages/.  A render gives a view: the messages it   *)
(* showed with st.error and st.success, the repository calls it made and   *)
(* the buttons it offered.  A button carries its on_click callback and the *)
(* callback's argument; on_click "submit" is a button the render itself    *)
(* tests (st.button, st.form_submit_button).  The labels and messages are  *)
(* ASCII names of the source's Japanese texts.                             *)

View(shown, calls, buttons) == [shown |-> shown, calls |-> calls, buttons |-> buttons]

Button(label, on_click, arg) == [label |-> label, on_click |-> on_click, arg |-> arg]

\* streamlit_util.login_required, when no user is logged in
login_required_view ==
    View(<<"not_logged_in">>, <<>>,
         {Button("back_to_login", "set_page_id", Member("LOGIN"))})

\* streamlit_util.is_user_already_logged_in, when a user is logged in
already_logged_in_view ==
    View(<<"already_logged_in">>, <<>>,
         {Button("back_to_search", "set_page_id", Member("RECOMMEND"))})

\* A login page that offers its form whoever is logged in: the fault that
\* property C9 excludes.
LoginPage_render_unguarded(state) ==
    View(<<>>, <<>>,
         { Button("login", "submit", None),
           Button("register", "set_page_id", Member("REGISTER")) })

\* LoginPage.render, no button pressed
LoginPage_render(state) ==
    IF get_user_id(state) # None THEN already_logged_in_view
    ELSE View(<<>>, <<>>,
              { Button("login", "submit", None),
                Button("register", "set_page_id", Member("REGISTER")) })

\* RegisterPage.render, no button pressed
RegisterPage_render(state) ==
    IF get_user_id(state) # None THEN already_logged_in_view
    ELSE View(<<>>, <<>>,
              { Button("register", "submit", None),
                Button("back_to_login", "set_page_id", Member("LOGIN")) })

\* RecommendPage.render, no button pressed
RecommendPage_render(state) ==
    View(<<>>, <<>>,
         { Button("search", "submit", None),
           Button("account_info", "set_page_id", Name("ACCOUNT_INFO")) })

\* An account page that fetches before it tests for a logged-in user: the
\* fault that property C8 excludes.
AccountInfoPage_render_fetching(accounts, state) ==
    IF get_user_id(state) = None
    THEN View(<<"not_logged_in">>, <<"AccountRepository.fetch">>,
              {Button("back_to_login", "set_page_id", Member("LOGIN"))})
    ELSE View(<<>>, <<"AccountRepository.fetch">>,
              { Button("history", "set_page_id", Member("HISTORY")),
                Button("delete_account", "set_page_id", Member("DELETE")),
                Button("back_to_search", "set_page_id", Member("RECOMMEND")) })

\* AccountInfoPage.render
AccountInfoPage_render(accounts, state) ==
    IF get_user_id(state) = None THEN login_required_view
    ELSE IF AccountRepository_fetch(accounts, get_user_id(state)) = None
    THEN View(<<"account_not_found">>, <<"AccountRepository.fetch">>, {})
    ELSE View(<<>>, <<"AccountRepository.fetch">>,
              { Button("history", "set_page_id", Member("HISTORY")),
                Button("delete_account", "set_page_id", Member("DELETE")),
                Button("back_to_search", "set_page_id", Member("RECOMMEND")) })

\* HistoryPage.render and __render_histories, no button pressed
HistoryPage_render(histories, state) ==
    IF get_user_id(state) = None THEN login_required_view
    ELSE LET found == HistoryRepository_search(histories, get_user_id(state))
         IN  IF found = <<>>
             THEN View(<<"no_history">>, <<"HistoryRepository.search">>,
                       {Button("back_to_search", "set_page_id", Member("RECOMMEND"))})
             ELSE View(<<>>, <<"HistoryRepository.search">>,
                       { Button("delete", "submit", [history_id |-> found[i].id]) :
                             i \in 1..Len(found) }
                       \cup {Button("account_info", "set_page_id", Member("ACCOUNT_INFO"))})

\* DeletePage.render
DeletePage_render(state) ==
    IF get_user_id(state) = None THEN login_required_view
    ELSE View(<<>>, <<>>,
              { Button("delete", "__delete", get_user_id(state)),
                Button("back_to_account_info", "set_page_id", Member("ACCOUNT_INFO")) })

\* PageFactory.__init__: the keys of __page_dict, the .name of each PageType
PageFactory_page_dict == { Name(n) : n \in PageIDNames }

\* PageFactory.get_page: the name of the page object stored under that key,
\* or the KeyError of the dict for a key it does not hold (a PageID member
\* equals no str)
PageFactory_get_page(page_id) ==
    IF page_id \in PageFactory_page_dict
    THEN [page |-> page_id.str]
    ELSE [raise |-> "KeyError"]

\* PageFactory.get_page(page_id).render() for the page object of that name
render(page, accounts, histories, state) ==
    CASE page = "LOGIN" -> LoginPage_render(state)
      [] page = "REGISTER" -> RegisterPage_render(state)
      [] page = "RECOMMEND" -> RecommendPage_render(state)
      [] page = "ACCOUNT_INFO" -> AccountInfoPage_render(accounts, state)
      [] page = "HISTORY" -> HistoryPage_render(histories, state)
      [] page = "DELETE" -> DeletePage_render(state)

(* What a pressed button makes its page do.  An outcome says what was      *)
(* raised out of the page ("none": the page returned), the session state   *)
(* and the table it leaves, the messages shown, the repository calls made, *)
(* and how the run went on: "continue" (the page rendered what follows the *)
(* button), "return" (the page returned or raised at that point) or        *)
(* "rerun" (st.rerun(), or a callback's end: the script ran again).        *)

Outcome(raised, state, table, shown, calls, flow) ==
    [ raised |-> raised, state |-> state, table |-> table, shown |-> shown,
      calls |-> calls, flow |-> flow ]

\* A login that stores a fresh hash of the password on success: the fault
\* that property C23 excludes.
LoginPage_login_rehashing(accounts, state, user_id, password) ==
    LET result == UserRepository_login(accounts, user_id, password)
        calls == <<"UserRepository.login">>
        row == get_account(accounts, user_id.user_id)
    IN  IF result = [value |-> TRUE]
        THEN Outcome("none", set_user_id(state, user_id),
                     (accounts \ {row}) \cup
                         {[row EXCEPT !.hashed_password =
                               hashpw(password.password, row.hashed_password[2] + 1)]},
                     <<"login_success">>, calls, "rerun")
        ELSE IF result = [value |-> FALSE]
        THEN Outcome("none", state, accounts, <<"login_failed">>, calls, "continue")
        ELSE Outcome(result.raise, state, accounts, <<>>, calls, "return")

\* LoginPage.__login
LoginPage_login(accounts, state, user_id, password) ==
    LET result == UserRepository_login(accounts, user_id, password)
        calls == <<"UserRepository.login">>
    IN  IF result = [value |-> TRUE]
        THEN Outcome("none", set_user_id(state, user_id), accounts,
                     <<"login_success">>, calls, "rerun")
        ELSE IF result = [value |-> FALSE]
        THEN Outcome("none", state, accounts, <<"login_failed">>, calls, "continue")
        ELSE Outcome(result.raise, state, accounts, <<>>, calls, "return")

\* A login page with a message of its own for an id that has no account: the
\* fault that property C30 excludes.
LoginPage_submit_telling(accounts, state, user_id, password) ==
    IF UserID(user_id) = ValidationError \/ Password(password) = ValidationError
    THEN Outcome("none", state, accounts, <<"login_failed">>, <<>>, "continue")
    ELSE LET done == LoginPage_login(accounts, state, UserID(user_id), Password(password))
         IN  IF done.raised = "AttributeError"
             THEN Outcome("none", state, accounts, <<"no_such_user">>, done.calls, "continue")
             ELSE done

\* LoginPage.render, the login button pressed
LoginPage_submit(accounts, state, user_id, password) ==
    IF UserID(user_id) = ValidationError \/ Password(password) = ValidationError
    THEN Outcome("none", state, accounts, <<"login_failed">>, <<>>, "continue")
    ELSE LET done == LoginPage_login(accounts, state, UserID(user_id), Password(password))
         IN  IF done.raised \in {"pydantic.ValidationError", "AttributeError"}
             THEN Outcome("none", state, accounts, <<"login_failed">>, done.calls, "continue")
             ELSE done

\* RegisterPage.__register
RegisterPage_register(accounts, state, user_id, password, age, sex, salt) ==
    LET added == AccountRepository_add(accounts, user_id, password, age, sex, salt)
        calls == <<"AccountRepository.add">>
    IN  IF added.raised = "sqlalchemy.exc.IntegrityError"
        THEN Outcome("none", state, accounts, <<"user_id_exists">>, calls, "continue")
        ELSE Outcome("none", set_user_id(state, user_id), added.table,
                     <<"register_success">>, calls, "rerun")

\* RegisterPage.render, the register button pressed
RegisterPage_submit(accounts, state, user_id, password, age, sex, salt) ==
    IF sex = None
    THEN Outcome("none", state, accounts, <<"sex_not_selected">>, <<>>, "return")
    ELSE IF \/ UserID(user_id) = ValidationError
            \/ Password(password) = ValidationError
            \/ Age(age) = ValidationError
    THEN Outcome("none", state, accounts, <<"validation_error">>, <<>>, "continue")
    ELSE RegisterPage_register(accounts, state, UserID(user_id), Password(password),
                               Age(age), sex, salt)

\* RecommendPage.__recommend; response is what generate_recommended_text gave:
\* [text |-> the content], None, or [raise |-> the client's exception]
RecommendPage_recommend(histories, id, state, genre, price_model, hardware, game_format, world_view, detail, response) ==
    LET calls == <<"generate_recommended_text">>
    IN  IF "raise" \in DOMAIN response
        THEN Outcome(response.raise, state, histories, <<>>, calls, "return")
        ELSE IF response = None
        THEN Outcome("none", state, histories, <<"no_recommendation">>, calls, "continue")
        ELSE LET recommended_game == from_text(response.text)
             IN  IF "raise" \in DOMAIN recommended_game
                 THEN Outcome(recommended_game.raise, state, histories, <<>>, calls, "return")
                 ELSE IF get_user_id(state) # None
                 THEN Outcome("none", state,
                              HistoryRepository_add(histories, id, get_user_id(state),
                                  genre, price_model, hardware, game_format, world_view,
                                  detail, recommended_game),
                              <<"recommended_text">>,
                              calls \o <<"HistoryRepository.add">>, "continue")
                 ELSE Outcome("none", state, histories, <<"recommended_text">>, calls, "continue")

\* RecommendPage.render, the search button pressed
RecommendPage_submit(histories, id, state, form, response) ==
    IF \/ Genre(form.genre) = ValidationError
       \/ Price(form.low_price, form.high_price) = ValidationError
       \/ Hardware(form.hardware) = ValidationError
       \/ GameFormat(form.game_format) = ValidationError
       \/ WorldView(form.world_view) = ValidationError
       \/ Detail(form.detail) = ValidationError
    THEN Outcome("none", state, histories, <<"validation_error">>, <<>>, "return")
    ELSE LET done == RecommendPage_recommend(histories, id, state, Genre(form.genre),
                         Price(form.low_price, form.high_price), Hardware(form.hardware),
                         GameFormat(form.game_format), WorldView(form.world_view),
                         Detail(form.detail), response)
         IN  IF done.raised = "pydantic.ValidationError"
             THEN Outcome("none", state, histories, <<"validation_error">>,
                          done.calls, "return")
             ELSE done

\* HistoryPage.__render_histories, the delete button of a row pressed
HistoryPage_delete(histories, state, history_id) ==
    LET deleted == HistoryRepository_delete(histories, history_id)
        calls == <<"HistoryRepository.search", "HistoryRepository.delete">>
    IN  Outcome(deleted.raised, state, deleted.table, <<>>, calls, "rerun")

\* DeletePage.__delete, its first repository call
DeletePage_delete_account(accounts, state, user_id) ==
    LET deleted == AccountRepository_delete(accounts, user_id)
    IN  Outcome(deleted.raised, state, deleted.table, <<>>,
                <<"AccountRepository.delete">>, "return")

\* DeletePage.__delete, from its second repository call to its end
DeletePage_delete_history(histories, state, user_id) ==
    Outcome("none", set_page_id(set_user_id(state, None), Member("LOGIN")),
            HistoryRepository_delete_all(histories, user_id),
            <<"delete_success">>,
            <<"AccountRepository.delete", "HistoryRepository.delete_all">>, "rerun")

\* A logout that only changes the page: the fault that property C26 excludes.
PageController_logout_keeping_user(state) == set_page_id(state, Member("LOGIN"))

\* PageController.__logout
PageController_logout(state) ==
    set_page_id(set_user_id(state, None), Member("LOGIN"))

-----------------------------------------------------------------------------
(* What the users and the completion service may supply.                   *)

abcde == <<"a", "b", "c", "d", "e">>
player1 == <<"p", "l", "a", "y", "e", "r", "1">>
pass1234 == <<"p", "a", "s", "s", "1", "2", "3", "4">>
word5678 == <<"w", "o", "r", "d", "5", "6", "7", "8">>


\* The fields of the login form: each pair of a well-formed user id and a
\* well-formed password, and one form per way a field can be malformed (a user
\* id too short or too long; a password too short, with no digit, with no letter)
LoginForms ==
    { [user_id |-> u, password |-> p] : u \in {abcde, player1}, p \in {pass1234, word5678} }
    \cup { [user_id |-> u, password |-> pass1234] :
               u \in {<<"a", "b", "c", "d">>, Rep("x", MaxUserIDLen + 1)} }
    \cup { [user_id |-> abcde, password |-> p] :
               p \in { <<"p", "a", "s", "s", "1", "2", "3">>,
                       <<"p", "a", "s", "s", "w", "o", "r", "d">>,
                       <<"1", "2", "3", "4", "5", "6", "7", "8">> } }

\* The fields of the register form: the login forms with an age the slider
\* gives (0 to 100) and a sex the selectbox gives (a member of account.Sex)
RegisterForms ==
    { [user_id |-> f.user_id, password |-> f.password, age |-> 25, sex |-> Member("MALE")] :
          f \in LoginForms }

Salts == 1..MaxSalt

\* The fields of the recommend page
Form(genre, low_price, high_price, hardware, game_format, world_view, detail) ==
    [ genre |-> genre, low_price |-> low_price, high_price |-> high_price,
      hardware |-> hardware, game_format |-> game_format, world_view |-> world_view,
      detail |-> detail ]

ValidForm ==
    Form(<<"ACTION", ",", " ", "RPG">>, 0, 5000, <<"Play", " ", "Station">>,
         <<>>, <<"SF">>, <<"f", "u", "n">>)

\* The forms the page can submit: the multiselects give options of their lists
\* joined by ", " and the slider gives low <= high in steps of 1000, so the
\* detail text, which is typed, is the one field that can fail its constraint
RecommendForms ==
    { ValidForm,
      [ValidForm EXCEPT !.detail = Rep("d", MaxDetailLen + 1)] }

GoodText ==
    <<"H", "i", "\n", Marker, "C", "h", "r", "o", "n", "o", "\n", "f", "u", "n">>

\* What generate_recommended_text gives: a text with a recommended-game line,
\* a text without one, a text whose line is too long, no content, or the
\* completion client's exception.
Responses ==
    { [text |-> GoodText],
      [text |-> <<"s", "o", "r", "r", "y", "\n">>],
      [text |-> <<Marker>> \o Rep("x", MaxRecommendedGameLen + 1)],
      None,
      [raise |-> "openai.APIError"] }

\* A press of the search button: the form and what the completion call gives.
\* A form that fails validation never reaches the call.
RecommendRequests ==
    { [form |-> ValidForm, response |-> r] : r \in Responses }
    \cup { [form |-> f, response |-> None] : f \in RecommendForms \ {ValidForm} }

-----------------------------------------------------------------------------
(* The state machine.  A step is one script run of one session: a plain    *)
(* render of the page picked in the sidebar, or a run that a pressed       *)
(* button started.  DeletePage.__delete takes two steps, one for each of   *)
(* its repository calls, since each call commits on its own.               *)

\* What a run left on the screen, given the outcome of the pressed button and
\* the tables and session state the run left.
Ran(s, page, button, done, accounts, histories, state) ==
    LET stopped == done.raised # "none" \/ done.flow = "return"
        view == render(page, accounts, histories, state)
    IN  [ session |-> s, page |-> page, event |-> button, raised |-> done.raised,
          shown |-> IF stopped THEN done.shown ELSE done.shown \o view.shown,
          calls |-> IF stopped THEN done.calls ELSE done.calls \o view.calls,
          buttons |-> IF stopped THEN {button} ELSE view.buttons ]

\* main.main on a session's first run: app.initialize_app
Init ==
    /\ account = {}
    /\ history = {}
    /\ next_id = 1
    /\ session_state = [s \in Sessions |-> SessionManager_init]
    /\ deleting = [s \in Sessions |-> None]
    /\ last = [ session |-> "none", page |-> "none", event |-> None, raised |-> "none",
                shown |-> <<>>, calls |-> <<>>, buttons |-> {} ]
    /\ call = None

\* PageController.render: the page picked in the sidebar, no button pressed
Render(s, page) ==
    /\ deleting[s] = None
    /\ last' = Ran(s, page, None, Outcome("none", session_state[s], {}, <<>>, <<>>, "rerun"),
                   account, history, session_state[s])
    /\ UNCHANGED <<account, history, next_id, session_state, deleting, call>>

\* A button whose on_click is a lambda calling SessionManager.set_page_id
NavClick(s, page, button) ==
    /\ deleting[s] = None
    /\ button \in render(page, account, history, session_state[s]).buttons
    /\ button.on_click = "set_page_id"
    /\ session_state' = [session_state EXCEPT ![s] = set_page_id(@, button.arg)]
    /\ last' = Ran(s, page, button,
                   Outcome("none", session_state'[s], {}, <<>>, <<>>, "rerun"),
                   account, history, session_state'[s])
    /\ UNCHANGED <<account, history, next_id, deleting, call>>

\* A logout that clears the user of every session: the fault that property
\* C22 excludes.
Logout_everyone(s, page) ==
    /\ deleting[s] = None
    /\ get_user_id(session_state[s]) # None
    /\ session_state' = [t \in DOMAIN session_state |->
                             PageController_logout(session_state[t])]
    /\ last' = Ran(s, page, Button("logout", "__logout", None),
                   Outcome("none", session_state'[s], {}, <<>>, <<>>, "rerun"),
                   account, history, session_state'[s])
    /\ UNCHANGED <<account, history, next_id, deleting, call>>

\* The sidebar's logout button: PageController.__logout
Logout(s, page) ==
    /\ deleting[s] = None
    /\ get_user_id(session_state[s]) # None
    /\ session_state' = [session_state EXCEPT ![s] = PageController_logout(@)]
    /\ last' = Ran(s, page, Button("logout", "__logout", None),
                   Outcome("none", session_state'[s], {}, <<>>, <<>>, "rerun"),
                   account, history, session_state'[s])
    /\ UNCHANGED <<account, history, next_id, deleting, call>>

\* The login form submitted
LoginSubmit(s, user_id, password) ==
    /\ deleting[s] = None
    /\ Button("login", "submit", None) \in LoginPage_render(session_state[s]).buttons
    /\ LET done == LoginPage_submit(account, session_state[s], user_id, password)
       IN  /\ account' = done.table
           /\ session_state' = [session_state EXCEPT ![s] = done.state]
           /\ last' = Ran(s, "LOGIN", Button("login", "submit", None), done,
                          done.table, history, done.state)
    /\ UNCHANGED <<history, next_id, deleting, call>>

\* The register form submitted
RegisterSubmit(s, user_id, password, age, sex, salt) ==
    /\ deleting[s] = None
    /\ Button("register", "submit", None) \in RegisterPage_render(session_state[s]).buttons
    /\ LET done == RegisterPage_submit(account, session_state[s], user_id, password,
                                       age, sex, salt)
       IN  /\ account' = done.table
           /\ session_state' = [session_state EXCEPT ![s] = done.state]
           /\ last' = Ran(s, "REGISTER", Button("register", "submit", None), done,
                          done.table, history, done.state)
    /\ UNCHANGED <<history, next_id, deleting, call>>

\* The search button of the recommend page pressed
RecommendSearch(s, form, response) ==
    /\ deleting[s] = None
    /\ LET done == RecommendPage_submit(history, next_id, session_state[s], form, response)
       IN  /\ done.table # history => next_id <= MaxHistoryRows
           /\ history' = done.table
           /\ next_id' = IF done.table # history THEN next_id + 1 ELSE next_id
           /\ session_state' = [session_state EXCEPT ![s] = done.state]
           /\ last' = Ran(s, "RECOMMEND", Button("search", "submit", None), done,
                          account, done.table, done.state)
    /\ UNCHANGED <<account, deleting, call>>

\* The delete button of a row of the history page pressed
HistoryDelete(s, button) ==
    /\ deleting[s] = None
    /\ button \in HistoryPage_render(history, session_state[s]).buttons
    /\ button.on_click = "submit"
    /\ LET done == HistoryPage_delete(history, session_state[s], button.arg.history_id)
       IN  /\ history' = done.table
           /\ last' = Ran(s, "HISTORY", button, done, account, done.table, session_state[s])
    /\ UNCHANGED <<account, next_id, session_state, deleting, call>>

\* The delete button of the delete page pressed: DeletePage.__delete up to the
\* commit of AccountRepository.delete
DeleteAccount(s, button) ==
    /\ deleting[s] = None
    /\ button \in DeletePage_render(session_state[s]).buttons
    /\ button.on_click = "__delete"
    /\ LET done == DeletePage_delete_account(account, session_state[s], button.arg)
       IN  /\ account' = done.table
           /\ deleting' = [deleting EXCEPT ![s] = IF done.raised = "none"
                                                  THEN button.arg ELSE None]
           /\ last' = Ran(s, "DELETE", button, done, done.table, history, session_state[s])
    /\ UNCHANGED <<history, next_id, session_state, call>>

\* DeletePage.__delete from HistoryRepository.delete_all to its end
DeleteHistory(s) ==
    /\ deleting[s] # None
    /\ LET done == DeletePage_delete_history(history, session_state[s], deleting[s])
       IN  /\ history' = done.table
           /\ session_state' = [session_state EXCEPT ![s] = done.state]
           /\ last' = Ran(s, "DELETE", Button("delete", "__delete", deleting[s]), done,
                          account, done.table, done.state)
    /\ deleting' = [deleting EXCEPT ![s] = None]
    /\ UNCHANGED <<account, next_id, call>>

Next ==
    \E s \in Sessions :
        \/ \E page \in PageIDNames : Render(s, page)
        \/ \E page \in PageIDNames :
               \E button \in render(page, account, history, session_state[s]).buttons :
                   NavClick(s, page, button)
        \/ \E page \in PageIDNames : Logout(s, page)
        \/ \E form \in LoginForms : LoginSubmit(s, form.user_id, form.password)
        \/ \E form \in RegisterForms, salt \in Salts :
               RegisterSubmit(s, form.user_id, form.password, form.age, form.sex, salt)
        \/ \E request \in RecommendRequests :
               RecommendSearch(s, request.form, request.response)
        \/ \E button \in HistoryPage_render(history, session_state[s]).buttons :
               HistoryDelete(s, button)
        \/ \E button \in DeletePage_render(session_state[s]).buttons :
               DeleteAccount(s, button)
        \/ DeleteHistory(s)

Spec == Init /\ [][Next]_vars

-----------------------------------------------------------------------------
(* Two browser sessions on the same database.  Each session has its own    *)
(* st.session_state; the repositories share the engine.  The sessions      *)
(* submit well-formed forms only and ask for one recommendation text, so   *)
(* that the interleavings of their repository calls are what varies.       *)

Clients == {"s1", "s2"}

SharedForms ==
    { [user_id |-> u, password |-> pass1234, age |-> 25, sex |-> Member("MALE")] :
          u \in {abcde, player1} }

InitShared ==
    /\ account = {}
    /\ history = {}
    /\ next_id = 1
    /\ session_state = [s \in Clients |-> SessionManager_init]
    /\ deleting = [s \in Clients |-> None]
    /\ last = [ session |-> "none", page |-> "none", event |-> None, raised |-> "none",
                shown |-> <<>>, calls |-> <<>>, buttons |-> {} ]
    /\ call = None

NextShared ==
    \E s \in Clients :
        \/ Logout(s, "RECOMMEND")
        \/ \E form \in SharedForms : LoginSubmit(s, form.user_id, form.password)
        \/ \E form \in SharedForms, salt \in Salts :
               RegisterSubmit(s, form.user_id, form.password, form.age, form.sex, salt)
        \/ RecommendSearch(s, ValidForm, [text |-> GoodText])
        \/ \E button \in HistoryPage_render(history, session_state[s]).buttons :
               HistoryDelete(s, button)
        \/ \E button \in DeletePage_render(session_state[s]).buttons :
               DeleteAccount(s, button)
        \/ DeleteHistory(s)

SpecShared == InitShared /\ [][NextShared]_vars

-----------------------------------------------------------------------------
(* The value types on their own: a constructor or a class method is called *)
(* once with an argument drawn from a bounded set, as a unit test calls it. *)
(* call holds the name, the arguments and, after the step, what the call   *)
(* gave.                                                                   *)

\* Longest string of pieces given to an option validator
MaxProbeLen == 4

Pending == [pending |-> TRUE]

\* The strings of at most n pieces of S
Strings(S, n) == UNION { [1..k -> S] : k \in 0..n }

\* Pieces of the strings given to each option validator: two labels of the
\* field, a word that is no label, a comma and a space
OptionPieces ==
    [ Genre |-> {"ACTION", "RPG", "x", ",", " "},
      Hardware |-> {"Play", "Station", "Mac", ",", " "},
      GameFormat |-> {"2D", "HD2D", "x", ",", " "},
      WorldView |-> {"SF", "HORROR", "x", ",", " "} ]

OptionProbes(field) == Strings(OptionPieces[field], MaxProbeLen)

\* Prices given to model.Price: every multiple of 500 from -1000 to 11000
PriceProbes == { 500 * k - 1000 : k \in 0..24 }

\* Passwords given to account.Password: every string of 7 or 8 characters of
\* a letter, a digit and a hyphen, and some longer and shorter ones
PasswordProbes ==
    UNION { [1..k -> {"a", "1", "-"}] : k \in {MinPasswordLen - 1, MinPasswordLen} }
    \cup { <<>>, pass1234, word5678, pass1234 \o <<"5">>, Rep("a", 12), Rep("1", 12),
           Rep("a", 11) \o <<"1">> }

\* Texts given to RecommendedGame.from_text: every text of at most 5 pieces of
\* the marker, a character and a newline, and texts whose recommended-game
\* line is 99, 100 or 101 characters long
TextProbes ==
    Strings({Marker, "x", "\n"}, 5)
    \cup { pre \o <<Marker>> \o Rep("x", n) \o post :
               pre \in {<<>>, <<"x", "\n">>},
               n \in {MaxRecommendedGameLen - 1, MaxRecommendedGameLen,
                      MaxRecommendedGameLen + 1},
               post \in {<<>>, <<"\n", "x">>, <<"\n", Marker, "x">>} }

\* Valid passwords hashed and verified
HashProbes == {pass1234, word5678, pass1234 \o <<"5">>, Rep("a", 11) \o <<"1">>}

Called(op, args) == [op |-> op, args |-> args, gave |-> Pending]

InitValues ==
    /\ account = {}
    /\ history = {}
    /\ next_id = 1
    /\ session_state = [s \in Sessions |-> SessionManager_init]
    /\ deleting = [s \in Sessions |-> None]
    /\ last = [ session |-> "none", page |-> "none", event |-> None, raised |-> "none",
                shown |-> <<>>, calls |-> <<>>, buttons |-> {} ]
    /\ call \in { Called("Genre", <<value>>) : value \in OptionProbes("Genre") }
              \cup { Called("Hardware", <<value>>) : value \in OptionProbes("Hardware") }
              \cup { Called("GameFormat", <<value>>) : value \in OptionProbes("GameFormat") }
              \cup { Called("WorldView", <<value>>) : value \in OptionProbes("WorldView") }
              \cup { Called("Price", <<low, high>>) :
                         low \in PriceProbes, high \in PriceProbes }
              \cup { Called("Password", <<value>>) : value \in PasswordProbes }
              \cup { Called("from_text", <<value>>) : value \in TextProbes }
              \cup { Called("verify", <<p, q, salt>>) :
                         p \in HashProbes, q \in HashProbes, salt \in Salts }

Gave(result) ==
    /\ call.gave = Pending
    /\ call' = [call EXCEPT !.gave = result]
    /\ UNCHANGED <<account, history, next_id, session_state, deleting, last>>

\* model.Genre(genre=value)
CallGenre == call.op = "Genre" /\ Gave(Genre(call.args[1]))

\* model.Hardware(hardware=value)
CallHardware == call.op = "Hardware" /\ Gave(Hardware(call.args[1]))

\* model.GameFormat(game_format=value)
CallGameFormat == call.op = "GameFormat" /\ Gave(GameFormat(call.args[1]))

\* model.WorldView(world_view=value)
CallWorldView == call.op = "WorldView" /\ Gave(WorldView(call.args[1]))

\* model.Price(low_price=low, high_price=high), and .price of the model built
CallPrice ==
    /\ call.op = "Price"
    /\ LET built == Price(call.args[1], call.args[2])
       IN  Gave(IF built = ValidationError THEN built
                ELSE [model |-> built, price |-> price(built)])

\* account.Password(password=value)
CallPassword == call.op = "Password" /\ Gave(Password(call.args[1]))

\* model.RecommendedGame.from_text(value)
CallFromText == call.op = "from_text" /\ Gave(from_text(call.args[1]))

\* account.HashedPassword.from_password(Password(p)).verify(Password(q))
CallVerify ==
    /\ call.op = "verify"
    /\ Gave([value |-> verify(from_password(Password(call.args[1]), call.args[3]),
                              Password(call.args[2]))])

NextValues ==
    \/ CallGenre
    \/ CallHardware
    \/ CallGameFormat
    \/ CallWorldView
    \/ CallPrice
    \/ CallPassword
    \/ CallFromText
    \/ CallVerify

SpecValues == InitValues /\ [][NextValues]_vars

-----------------------------------------------------------------------------
(* Two browser sessions that log in, log out, navigate, register and       *)
(* delete accounts on the same database, every page and every navigation   *)
(* button included; no recommendation is asked for, so the history table   *)
(* stays empty.                                                            *)

NextSessions ==
    \E s \in Clients :
        \/ \E page \in PageIDNames : Logout(s, page)
        \/ \E page \in PageIDNames :
               \E button \in render(page, account, history, session_state[s]).buttons :
                   NavClick(s, page, button)
        \/ \E form \in SharedForms, password \in {pass1234, word5678} :
               LoginSubmit(s, form.user_id, password)
        \/ \E form \in SharedForms, salt \in Salts :
               RegisterSubmit(s, form.user_id, form.password, form.age, form.sex, salt)
        \/ \E button \in DeletePage_render(session_state[s]).buttons :
               DeleteAccount(s, button)
        \/ DeleteHistory(s)

SpecSessions == InitShared /\ [][NextSessions]_vars

-----------------------------------------------------------------------------
(* The repositories called directly, as their callers and a test of them   *)
(* may: any call on any storage, rows of users without an account and ids  *)
(* of no row included.  `call` holds the last call, what it gave and how   *)
(* far the calls so far follow the register, login, add, search scenario.  *)

\* The users, the sexes and the preferences of the direct calls
RepoUsers == {abcde, player1}

RepoSexes == {"MALE", "FEMALE"}

ActionForm == [ValidForm EXCEPT !.genre = <<"ACTION">>]

RepoForms == { ActionForm, [ValidForm EXCEPT !.low_price = 1000, !.high_price = 1000] }

\* The most rows the direct calls add
MaxRepoRows == 3

\* The ids delete is called with: those the table can have assigned, and one more
RepoIDs == 1..(MaxRepoRows + 1)

\* The calls of the scenario, in order
ScenarioCalls ==
    << [op |-> "register",
        args |-> [user_id |-> player1, password |-> pass1234, age |-> 25, sex |-> "MALE"]],
       [op |-> "login", args |-> [user_id |-> player1, password |-> pass1234]],
       [op |-> "add", args |-> [user_id |-> player1, form |-> ActionForm]],
       [op |-> "search", args |-> [user_id |-> player1]] >>

\* The calls left the scenario
Off == [off |-> TRUE]

\* How many calls of the scenario have been made, in order, since the storage
\* was empty; Off when the calls left the scenario.
Follow(scenario, op, args, accounts, histories) ==
    IF scenario # Off /\ scenario.made < Len(ScenarioCalls)
       /\ ScenarioCalls[scenario.made + 1] = [op |-> op, args |-> args]
    THEN [made |-> scenario.made + 1]
    ELSE IF accounts = {} /\ histories = {} THEN [made |-> 0]
    ELSE Off

InitRepo ==
    /\ account = {}
    /\ history = {}
    /\ next_id = 1
    /\ session_state = [s \in Sessions |-> SessionManager_init]
    /\ deleting = [s \in Sessions |-> None]
    /\ last = [ session |-> "none", page |-> "none", event |-> None, raised |-> "none",
                shown |-> <<>>, calls |-> <<>>, buttons |-> {} ]
    /\ call = [op |-> "none", args |-> None, gave |-> None, scenario |-> [made |-> 0]]

\* The record of a call, once the tables it leaves are known
Returned(op, args, gave) ==
    /\ call' = [ op |-> op, args |-> args, gave |-> gave,
                 scenario |-> Follow(call.scenario, op, args, account', history') ]
    /\ UNCHANGED <<session_state, deleting, last>>

\* AccountRepository.add(UserID, Password, Age, sex)
RepoRegister(user_id, password, age, sex, salt) ==
    LET done == AccountRepository_add(account, UserID(user_id), Password(password),
                                      Age(age), Member(sex), salt)
    IN  /\ account' = done.table
        /\ UNCHANGED <<history, next_id>>
        /\ Returned("register",
                    [user_id |-> user_id, password |-> password, age |-> age, sex |-> sex],
                    [raised |-> done.raised])

\* UserRepository.login(UserID, Password)
RepoLogin(user_id, password) ==
    /\ UNCHANGED <<account, history, next_id>>
    /\ Returned("login", [user_id |-> user_id, password |-> password],
                UserRepository_login(account, UserID(user_id), Password(password)))

\* AccountRepository.delete(UserID)
RepoAccountDelete(user_id) ==
    LET done == AccountRepository_delete(account, UserID(user_id))
    IN  /\ account' = done.table
        /\ UNCHANGED <<history, next_id>>
        /\ Returned("account_delete", [user_id |-> user_id], [raised |-> done.raised])

\* HistoryRepository.add(UserID, Genre, Price, Hardware, GameFormat, WorldView,
\* Detail, RecommendedGame)
RepoAdd(user_id, form) ==
    /\ next_id <= MaxRepoRows
    /\ history' = HistoryRepository_add(history, next_id, UserID(user_id),
                      Genre(form.genre), Price(form.low_price, form.high_price),
                      Hardware(form.hardware), GameFormat(form.game_format),
                      WorldView(form.world_view), Detail(form.detail),
                      from_text(GoodText))
    /\ next_id' = next_id + 1
    /\ UNCHANGED account
    /\ Returned("add", [user_id |-> user_id, form |-> form], [raised |-> "none"])

\* HistoryRepository.search(UserID)
RepoSearch(user_id) ==
    /\ UNCHANGED <<account, history, next_id>>
    /\ Returned("search", [user_id |-> user_id],
                [value |-> HistoryRepository_search(history, UserID(user_id))])

\* HistoryRepository.delete(history_id)
RepoDelete(history_id) ==
    LET done == HistoryRepository_delete(history, history_id)
    IN  /\ history' = done.table
        /\ UNCHANGED <<account, next_id>>
        /\ Returned("delete", [history_id |-> history_id], [raised |-> done.raised])

\* HistoryRepository.delete_all(UserID)
RepoDeleteAll(user_id) ==
    /\ history' = HistoryRepository_delete_all(history, UserID(user_id))
    /\ UNCHANGED <<account, next_id>>
    /\ Returned("delete_all", [user_id |-> user_id], [raised |-> "none"])

NextRepo ==
    \/ \E user_id \in RepoUsers, sex \in RepoSexes, salt \in Salts :
           RepoRegister(user_id, pass1234, 25, sex, salt)
    \/ \E user_id \in RepoUsers, password \in {pass1234, word5678} :
           RepoLogin(user_id, password)
    \/ \E user_id \in RepoUsers : RepoAccountDelete(user_id)
    \/ \E user_id \in RepoUsers, form \in RepoForms : RepoAdd(user_id, form)
    \/ \E user_id \in RepoUsers : RepoSearch(user_id)
    \/ \E history_id \in RepoIDs : RepoDelete(history_id)
    \/ \E user_id \in RepoUsers : RepoDeleteAll(user_id)

SpecRepo == InitRepo /\ [][NextRepo]_vars

-----------------------------------------------------------------------------
(* Properties.                                                              *)

Passwords == {pass1234, word5678}

LoginButton == Button("login", "submit", None)
RegisterButton == Button("register", "submit", None)
SearchButton == Button("search", "submit", None)

WellFormed(form) ==
    UserID(form.user_id) # ValidationError /\ Password(form.password) # ValidationError

\* The login page calls UserRepository.login with a well-formed user id that
\* has no Account row: the call returns False and the tables are as before
C1_Step ==
    \A s \in DOMAIN session_state :
        last'.session = s /\ last'.event = LoginButton
            => \A form \in LoginForms :
                   /\ WellFormed(form)
                   /\ get_account(account, form.user_id) = None
                   /\ LoginSubmit(s, form.user_id, form.password)
                   => /\ UserRepository_login(account, UserID(form.user_id),
                                              Password(form.password)) = [value |-> FALSE]
                      /\ account' = account
                      /\ history' = history

\* C1: UserRepository.login, called with a well-formed user id that has no
\* Account row, returns False (it does not raise) and leaves storage unchanged.
C1_LoginOfAbsentUserReturnsFalse == [][C1_Step]_vars

\* A successful registration with password p makes login(user_id, q) True for
\* q = p and False for every other valid q
C2_Registered ==
    \A s \in DOMAIN session_state :
        last'.session = s /\ last'.event = RegisterButton /\ account' # account
            => \A form \in RegisterForms, salt \in Salts :
                   RegisterSubmit(s, form.user_id, form.password, form.age, form.sex, salt)
                       => \A q \in Passwords :
                              UserRepository_login(account', UserID(form.user_id),
                                                   Password(q))
                                  = [value |-> q = form.password]

\* No step changes what login gives for an account that the step keeps
C2_Kept ==
    account' # account =>
    \A row \in account \cap account' :
        \A q \in Passwords :
            UserRepository_login(account', UserID(row.user_id), Password(q))
                = UserRepository_login(account, UserID(row.user_id), Password(q))

\* C2: for an existing account registered with password p and a valid password
\* q, UserRepository.login(user_id, q) is True if q = p and False otherwise,
\* whatever registrations, logins, history operations and deletions of other
\* accounts came in between.
C2_LoginTrueIffPasswordMatches == [][C2_Registered /\ C2_Kept]_vars

\* Both users are registered, a recommendation is stored, and a login with a
\* well-formed id and the wrong password was just refused.
C2_Witness ==
    /\ Cardinality(account) = 2
    /\ history # {}
    /\ last.event = LoginButton
    /\ last.calls = <<"UserRepository.login">>
    /\ last.shown = <<"login_failed">>

\* The register form is submitted with well-formed fields and a user id that
\* has an Account row: the page returns after showing the message that the id
\* is taken, the account table is as before and the session has no user
C3_Step ==
    \A s \in DOMAIN session_state :
        last'.session = s /\ last'.event = RegisterButton
            => \A form \in RegisterForms, salt \in Salts :
                   /\ form.sex # None
                   /\ WellFormed(form)
                   /\ Age(form.age) # ValidationError
                   /\ get_account(account, form.user_id) # None
                   /\ RegisterSubmit(s, form.user_id, form.password, form.age,
                                     form.sex, salt)
                   => /\ last'.raised = "none"
                      /\ last'.shown = <<"user_id_exists">>
                      /\ account' = account
                      /\ get_user_id(session_state'[s]) = get_user_id(session_state[s])
                      /\ get_user_id(session_state'[s]) = None

\* C3: registering a user id that already has an Account row fails with the
\* uniqueness conflict, which the register page turns into a message; the
\* first account is unchanged, no second row is created, and the session's
\* user is not set.
C3_DuplicateRegistrationRefused == [][C3_Step]_vars

\* A registration of an existing user id was just refused
C3_Witness ==
    /\ last.event = RegisterButton
    /\ last.shown = <<"user_id_exists">>
    /\ last.calls = <<"AccountRepository.add">>
    /\ account # {}

\* DeletePage.__delete ends for session s and user u: no Account row and no
\* History row of u is left, and search for u is empty
C4_Completed ==
    \A s \in DOMAIN session_state :
        deleting[s] # None /\ deleting'[s] = None
            => /\ get_account(account', deleting[s].user_id) = None
               /\ \A row \in history' : row.user_id # deleting[s].user_id
               /\ HistoryRepository_search(history', deleting[s]) = <<>>

C4_First ==
    \A s \in DOMAIN session_state :
        deleting[s] = None /\ deleting'[s] # None
            => /\ deleting'[s] = get_user_id(session_state[s])
               /\ get_account(account, deleting'[s].user_id) # None
               /\ account' = account \ {get_account(account, deleting'[s].user_id)}

\* When DeletePage.__delete ends, no History row of the user is left
C4_Second ==
    \A s \in DOMAIN session_state :
        deleting[s] # None /\ deleting'[s] = None
            => /\ \A row \in history' : row.user_id # deleting[s].user_id
               /\ HistoryRepository_search(history', deleting[s]) = <<>>
               /\ account' = account

\* Between the two calls, an Account row of the user appears only by a
\* registration from another session
C4_Between ==
    \A s \in DOMAIN session_state :
        /\ deleting[s] # None
        /\ get_account(account, deleting[s].user_id) = None
        /\ get_account(account', deleting[s].user_id) # None
        => last'.event = RegisterButton /\ last'.session # s

ValidRecommendForm(form) ==
    /\ Genre(form.genre) # ValidationError
    /\ Price(form.low_price, form.high_price) # ValidationError
    /\ Hardware(form.hardware) # ValidationError
    /\ GameFormat(form.game_format) # ValidationError
    /\ WorldView(form.world_view) # ValidationError
    /\ Detail(form.detail) # ValidationError

\* The completion gave no content, or a text with no recommended-game marker
NoRecommendedGame(response) ==
    \/ response = None
    \/ /\ "text" \in DOMAIN response
       /\ \A i \in 1..Len(response.text) : response.text[i] # Marker

\* A search whose completion gives no content or no marker line: the page
\* reports it and returns, and the history table is as before
C5_Step ==
    \A s \in DOMAIN session_state :
        last'.session = s /\ last'.event = SearchButton
            => \A request \in RecommendRequests :
                   /\ ValidRecommendForm(request.form)
                   /\ NoRecommendedGame(request.response)
                   /\ RecommendSearch(s, request.form, request.response)
                   => /\ last'.raised = "none"
                      /\ Len(last'.shown) > 0
                      /\ history' = history

\* C5: when the completion call yields no content, or a text with no
\* recommended-game marker line, the recommend page handles the failure itself
\* (reports it and returns normally, nothing escapes) and writes no History row.
C5_NoRecommendationIsHandled == [][C5_Step]_vars

\* What a session state may hold: a page identifier of const.PageID and a
\* validated user id or None
ValidSessionState(state) ==
    /\ state.PAGE_ID \in {Member(name) : name \in PageIDNames}
                            \cup {Name(name) : name \in PageIDNames}
    /\ \/ state.USER_ID = None
       \/ UserID(state.USER_ID.user_id) = state.USER_ID

\* C6: whatever a page's repository, value-type or completion call signals,
\* the page catches it and shows a message: no run ends with an exception
\* raised out of the page, and every session state stays a valid pair of page
\* and user.
C6_NoFailureEscapes ==
    /\ last.raised = "none"
    /\ \A s \in DOMAIN session_state : ValidSessionState(session_state[s])

\* A search whose completion gives a text with a valid recommended-game line
\* shows the text; it adds one History row of the session's user when a user
\* is logged in and none otherwise
C7_Step ==
    \A s \in DOMAIN session_state :
        last'.session = s /\ last'.event = SearchButton
            => \A request \in RecommendRequests :
                   /\ ValidRecommendForm(request.form)
                   /\ "text" \in DOMAIN request.response
                   /\ "recommended_game" \in DOMAIN from_text(request.response.text)
                   /\ RecommendSearch(s, request.form, request.response)
                   => /\ last'.raised = "none"
                      /\ last'.shown = <<"recommended_text">>
                      /\ IF get_user_id(session_state[s]) = None
                         THEN history' = history
                         ELSE /\ history \subseteq history'
                              /\ Cardinality(history' \ history) = 1
                              /\ \A row \in history' \ history :
                                     row.user_id = get_user_id(session_state[s]).user_id

\* C7: a recommendation request whose text has a valid recommended-game line
\* adds exactly one History row carrying the session's user id when a user is
\* logged in and none when no user is logged in; the recommendation is shown
\* in both cases.
C7_OneHistoryRowPerRecommendation == [][C7_Step]_vars

\* A logged-in user's search was just answered and stored
C7_Witness ==
    /\ last.event = SearchButton
    /\ last.shown = <<"recommended_text">>
    /\ last.calls = <<"generate_recommended_text", "HistoryRepository.add">>
    /\ \E row \in history :
           row.id = next_id - 1 /\ [user_id |-> row.user_id] = session_state[last.session].USER_ID

\* A run that only renders: a plain render, or the rerun after a navigation
\* button or the logout button
RenderOnly(run) ==
    \/ run.event = None
    \/ run.event.on_click \in {"set_page_id", "__logout"}

BackToLogin == Button("back_to_login", "set_page_id", Member("LOGIN"))
BackToSearch == Button("back_to_search", "set_page_id", Member("RECOMMEND"))

\* A private page rendered for a session with no user shows the error and the
\* back-to-login button, and calls no repository
C8_Render ==
    \A s \in DOMAIN session_state :
        /\ last'.session = s
        /\ RenderOnly(last')
        /\ last'.page \in {"HISTORY", "ACCOUNT_INFO", "DELETE"}
        /\ get_user_id(session_state'[s]) = None
        => /\ last'.raised = "none"
           /\ last'.calls = <<>>
           /\ last'.shown = <<"not_logged_in">>
           /\ last'.buttons = {BackToLogin}
           /\ account' = account
           /\ history' = history

\* Pressing the back-to-login button sets the session's page to Login and
\* nothing else
C8_Button ==
    \A s \in DOMAIN session_state :
        last'.session = s /\ last'.event = BackToLogin
            => /\ session_state' =
                      [session_state EXCEPT ![s] = set_page_id(@, Member("LOGIN"))]
               /\ session_state'[s].PAGE_ID = Member("LOGIN")
               /\ account' = account
               /\ history' = history

\* C8: rendering the history, account-info or delete page while the session
\* has no logged-in user reads and writes no repository; it only shows an error
\* and offers a button whose action sets the session page to Login.
C8_PrivatePagesRequireLogin == [][C8_Render /\ C8_Button]_vars

\* A private page was just rendered for a session with no user, after
\* accounts and recommendations had been stored
C8_Witness ==
    /\ last.event = None
    /\ last.page = "HISTORY"
    /\ last.shown = <<"not_logged_in">>
    /\ account # {}
    /\ history # {}

\* The login or register page rendered for a session with a user offers the
\* back-to-search button only, calls no repository and keeps the user
C9_Render ==
    \A s \in DOMAIN session_state :
        /\ last'.session = s
        /\ RenderOnly(last')
        /\ last'.page \in {"LOGIN", "REGISTER"}
        /\ get_user_id(session_state'[s]) # None
        => /\ last'.raised = "none"
           /\ last'.calls = <<>>
           /\ last'.shown = <<"already_logged_in">>
           /\ last'.buttons = {BackToSearch}
           /\ get_user_id(session_state'[s]) = get_user_id(session_state[s])
           /\ account' = account

\* No login form and no register form is submitted by a session with a user
C9_NoSubmit ==
    \A s \in DOMAIN session_state :
        get_user_id(session_state[s]) # None
            => ~ (last'.session = s /\ last'.event \in {LoginButton, RegisterButton})

\* Pressing the back-to-search button sets the session's page to Recommend and
\* keeps the user
C9_Button ==
    \A s \in DOMAIN session_state :
        last'.session = s /\ last'.event = BackToSearch
            => /\ session_state'[s].PAGE_ID = Member("RECOMMEND")
               /\ get_user_id(session_state'[s]) = get_user_id(session_state[s])

\* C9: rendering the login or register page while a user id is present in the
\* session state short-circuits: no login check and no account insertion can be
\* made from that render, the session user is unchanged, and the only action
\* offered sets the page to the Recommend page.
C9_LoggedInPagesShortCircuit == [][C9_Render /\ C9_NoSubmit /\ C9_Button]_vars

\* The register page was just rendered for a logged-in session
C9_Witness ==
    /\ last.event = None
    /\ last.page = "REGISTER"
    /\ last.shown = <<"already_logged_in">>
    /\ last.buttons = {BackToSearch}

\* The constraints of the typed fields, as the forms state them: a user id of
\* 5 to 20 characters, a password of 8 characters or more with a letter and a
\* digit, a detail of 1000 characters at most
MalformedCredentials(form) ==
    \/ Len(form.user_id) < MinUserIDLen
    \/ Len(form.user_id) > MaxUserIDLen
    \/ ~ validate_password(form.password)

Unchanged(s) ==
    /\ account' = account
    /\ history' = history
    /\ session_state' = session_state

\* A form submitted with a field that fails its constraint: a message is
\* shown, the tables and the session state are as before, and the run leaves
\* the same submit button on the page
C10_Step ==
    \A s \in DOMAIN session_state :
        /\ last'.session = s /\ last'.event = LoginButton
            => \A form \in LoginForms :
                   MalformedCredentials(form)
                       /\ LoginSubmit(s, form.user_id, form.password)
                   => /\ Unchanged(s)
                      /\ last'.raised = "none"
                      /\ Len(last'.shown) > 0
                      /\ LoginButton \in last'.buttons
        /\ last'.session = s /\ last'.event = RegisterButton
            => \A form \in RegisterForms, salt \in Salts :
                   MalformedCredentials(form)
                       /\ RegisterSubmit(s, form.user_id, form.password, form.age,
                                         form.sex, salt)
                   => /\ Unchanged(s)
                      /\ last'.raised = "none"
                      /\ Len(last'.shown) > 0
                      /\ RegisterButton \in last'.buttons
        /\ last'.session = s /\ last'.event = SearchButton
            => \A request \in RecommendRequests :
                   Len(request.form.detail) > MaxDetailLen
                       /\ RecommendSearch(s, request.form, request.response)
                   => /\ Unchanged(s)
                      /\ last'.raised = "none"
                      /\ Len(last'.shown) > 0
                      /\ SearchButton \in last'.buttons

\* C10: when a submitted value of the login, register or recommend form fails
\* its value type's constraint, nothing is mutated (account table, history
\* table, the session's user and page), and the form can be submitted again.
C10_ValidationFailureMutatesNothing == [][C10_Step]_vars

\* A register form with a malformed field was just refused while accounts and
\* recommendations were stored
C10_Witness ==
    /\ last.event = RegisterButton
    /\ last.shown = <<"validation_error">>
    /\ last.calls = <<>>
    /\ account # {}
    /\ history # {}

\* The prices the field constraints of model.Price allow
PricePoints == { k * PriceStep : k \in (MinPrice \div PriceStep)..(MaxPrice \div PriceStep) }

\* The display string of a pair of prices
PriceString(low, high) == str(low) \o <<"en", " ", "~", " ">> \o str(high) \o <<"en">>

ValidAccountRow(row) ==
    /\ Len(row.user_id) >= MinUserIDLen
    /\ Len(row.user_id) <= MaxUserIDLen
    /\ row.age \in MinAge..MaxAge
    /\ row.sex \in {Sex[name] : name \in DOMAIN Sex}

ValidHistoryRow(row) ==
    /\ make_option_validator(GenreOptions, row.genre)
    /\ make_option_validator(HardwareOptions, row.hardware)
    /\ make_option_validator(GameFormatOptions, row.game_format)
    /\ make_option_validator(WorldViewOptions, row.world_view)
    /\ \E low \in PricePoints, high \in PricePoints :
           low <= high /\ row.price = PriceString(low, high)
    /\ Len(row.detail) <= MaxDetailLen
    /\ Len(row.recommended_game) <= MaxRecommendedGameLen

\* C11: in every reachable state every Account row has a user_id of 5 to 20
\* characters, an age in 0..100 and a sex of the fixed set, and every History
\* row has enumerated fields that pass their validation, a price string of a
\* valid pair, a detail of at most 1000 characters and a recommended_game of at
\* most 100: no page action stores an unvalidated field.
C11_StoredRowsAreValid ==
    /\ \A row \in account : ValidAccountRow(row)
    /\ \A row \in history : ValidHistoryRow(row)

\* Both accounts are registered and all the recommendations the model stores
\* have been written
C11_Witness ==
    /\ Cardinality(account) = 2
    /\ Cardinality(history) = MaxHistoryRows

\* The option set and the field name of each enumerated value type
OptionsOf ==
    [ Genre |-> GenreOptions, Hardware |-> HardwareOptions,
      GameFormat |-> GameFormatOptions, WorldView |-> WorldViewOptions ]

FieldOf ==
    [ Genre |-> "genre", Hardware |-> "hardware", GameFormat |-> "game_format",
      WorldView |-> "world_view" ]

\* An enumerated value type was constructed
OptionCallDone == call # None /\ call.op \in DOMAIN OptionsOf /\ call.gave # Pending

\* The model built holds the value exactly as supplied
StoredAsSupplied ==
    call.gave # ValidationError
        => DOMAIN call.gave = {FieldOf[call.op]}
           /\ call.gave[FieldOf[call.op]] = call.args[1]

\* C12 as stated: an enumerated field's validation accepts a string if and only
\* if it is empty or every token obtained by splitting it on ", " is a member
\* of the field's option set; an accepted value is stored exactly as supplied.
C12_AcceptsIffEveryTokenIsAnOption ==
    OptionCallDone
        => LET value == call.args[1]
               tokens == split(value, <<",", " ">>)
           IN  /\ call.gave # ValidationError
                      <=> \/ value = <<>>
                          \/ \A i \in 1..Len(tokens) : tokens[i] \in OptionsOf[call.op]
               /\ StoredAsSupplied

\* C12, amended: an enumerated field's validation accepts a string if and only
\* if it is empty or every token obtained by splitting it on ", ", with the
\* whitespace around the token stripped, is a member of the field's option set;
\* an accepted value is stored exactly as supplied, whitespace included.
C12_AcceptsIffEveryStrippedTokenIsAnOption ==
    OptionCallDone
        => LET value == call.args[1]
               tokens == split(value, <<",", " ">>)
           IN  /\ call.gave # ValidationError
                      <=> \/ value = <<>>
                          \/ \A i \in 1..Len(tokens) :
                                 strip(tokens[i]) \in OptionsOf[call.op]
               /\ StoredAsSupplied

\* Two genres joined by ", " were accepted and stored as supplied
C12_Witness ==
    /\ call = [ op |-> "Genre", args |-> << <<"ACTION", ",", " ", "RPG">> >>,
                gave |-> [genre |-> <<"ACTION", ",", " ", "RPG">>] ]

\* model.Price was constructed
PriceCallDone == call # None /\ call.op = "Price" /\ call.gave # Pending

\* C13: Price accepts a pair (low, high) if and only if both are multiples of
\* 1000 in [0, 10000] and low <= high, so (5000, 1000) is rejected; the display
\* string of an accepted pair is "<low>en ~ <high>en".
C13_PriceAcceptsOrderedMultiplesOfThousand ==
    PriceCallDone
        => LET low == call.args[1]
               high == call.args[2]
           IN  /\ call.gave # ValidationError
                      <=> /\ low \in 0..10000 /\ low % 1000 = 0
                          /\ high \in 0..10000 /\ high % 1000 = 0
                          /\ low <= high
               /\ call.gave # ValidationError
                      => /\ call.gave.model = [low_price |-> low, high_price |-> high]
                         /\ call.gave.price = PriceString(low, high)
               /\ (low = 5000 /\ high = 1000) => call.gave = ValidationError

\* The pair (0, 10000) was accepted and displays as "0en ~ 10000en"
C13_Witness ==
    /\ PriceCallDone
    /\ call.args = <<0, 10000>>
    /\ call.gave # ValidationError
    /\ call.gave.price = <<"0", "en", " ", "~", " ", "1", "0", "0", "0", "0", "en">>

\* account.Password was constructed
PasswordCallDone == call # None /\ call.op = "Password" /\ call.gave # Pending

\* C14: Password accepts a string if and only if it has at least 8 characters,
\* at least one alphabetic character and at least one numeric character;
\* otherwise construction fails with a validation error and gives no Password.
C14_PasswordNeedsLengthLetterAndDigit ==
    PasswordCallDone
        => LET password == call.args[1]
               ok == /\ Len(password) >= 8
                     /\ Cardinality({i \in 1..Len(password) : password[i] \in Letters}) >= 1
                     /\ Cardinality({i \in 1..Len(password) : password[i] \in Digits}) >= 1
           IN  call.gave = IF ok THEN [password |-> password] ELSE ValidationError

\* Eight letters without a number were rejected
C14_Witness ==
    /\ PasswordCallDone
    /\ call.args = << Rep("a", 8) >>
    /\ call.gave = ValidationError

\* RecommendedGame.from_text returned or raised
FromTextCallDone == call # None /\ call.op = "from_text" /\ call.gave # Pending

\* The lines of a text
Lines(text) == split(text, <<"\n">>)

\* The part of a line after its first marker
AfterMarker(line) ==
    SubSeq(line, Min({j \in 1..Len(line) : line[j] = Marker}) + 1, Len(line))

\* What extraction gives for the text after the marker
Extracted(rest) ==
    IF Len(rest) > 100 THEN ValidationError ELSE [recommended_game |-> rest]

\* C15 as stated: if the text has a line of the form "<marker><rest>", a line
\* that starts with the marker, the value is the rest of the first such line,
\* and construction fails when the rest is longer than 100 characters; if the
\* text has no such line, extraction fails.
C15_ExtractsFromFirstLineStartingWithMarker ==
    FromTextCallDone
        => LET lines == Lines(call.args[1])
               found == {i \in 1..Len(lines) : lines[i] # <<>> /\ lines[i][1] = Marker}
           IN  IF found = {}
               THEN call.gave \in {ValueError, ValidationError}
               ELSE call.gave = Extracted(Tail(lines[Min(found)]))

\* C15, amended: if the text has a line that contains the marker, at its start
\* or after other characters, the value is what follows the first marker of the
\* first such line up to the end of that line, and construction fails when that
\* is longer than 100 characters; if no line contains the marker, extraction
\* fails.
C15_ExtractsAfterFirstMarkerAnywhere ==
    FromTextCallDone
        => LET lines == Lines(call.args[1])
               found == {i \in 1..Len(lines) :
                            \E j \in 1..Len(lines[i]) : lines[i][j] = Marker}
           IN  IF found = {}
               THEN call.gave = ValueError
               ELSE call.gave = Extracted(AfterMarker(lines[Min(found)]))

\* A marker in the middle of the second line: the rest of that line was
\* extracted, the line after it was not
C15_Witness ==
    call = [ op |-> "from_text", args |-> << <<"\n", "x", Marker, "x", "\n">> >>,
             gave |-> [recommended_game |-> <<"x">>] ]

\* HashedPassword.from_password(p).verify(q) returned
VerifyCallDone == call # None /\ call.op = "verify" /\ call.gave # Pending

\* C16: for valid passwords p and q, from_password(p).verify(q) is true when
\* q is p and false when q differs from p (no two passwords share a digest).
C16_VerifyTrueIffSamePassword ==
    VerifyCallDone
        => /\ Password(call.args[1]) # ValidationError
           /\ Password(call.args[2]) # ValidationError
           /\ call.gave = [value |-> (call.args[1] = call.args[2])]

\* A password that extends the hashed one by a character was refused
C16_Witness ==
    /\ VerifyCallDone
    /\ call.args[1] = pass1234
    /\ call.args[2] = pass1234 \o <<"5">>
    /\ call.gave = [value |-> FALSE]

\* C17: HistoryRepository.delete(history_id) removes exactly the row with that
\* id when it exists; when no row has that id it fails with NotFoundError and
\* leaves the history table unchanged.
C17_Step ==
    \A history_id \in RepoIDs :
        RepoDelete(history_id)
            => IF \E row \in history : row.id = history_id
               THEN /\ call'.gave = [raised |-> "none"]
                    /\ history' \subseteq history
                    /\ history \ history' = {row \in history : row.id = history_id}
                    /\ Cardinality(history') = Cardinality(history) - 1
               ELSE /\ call'.gave = [raised |-> "NotFoundError"]
                    /\ history' = history

C17_DeleteRemovesTheRowOrSignalsNotFound == [][C17_Step]_vars

\* A delete of an id that no row has, on a table that has a row, raised
\* NotFoundError
C17_Witness ==
    /\ call.op = "delete"
    /\ call.gave = [raised |-> "NotFoundError"]
    /\ history # {}

\* C18: after any sequence of history additions and deletions, search(user_id)
\* returns exactly the stored History rows whose user_id is the given id: each
\* of them once, and no row of any other user.
C18_SearchReturnsTheRowsOfTheUser ==
    call.op = "search"
        => LET found == call.gave.value
           IN  /\ { found[i] : i \in 1..Len(found) }
                      = { row \in history : row.user_id = call.args.user_id }
               /\ \A i, j \in 1..Len(found) : found[i] = found[j] => i = j

\* A search that returned one row while the table also holds a row of the
\* other user, after a row was deleted
C18_Witness ==
    /\ call.op = "search"
    /\ Len(call.gave.value) = 1
    /\ \E row \in history : row.user_id # call.args.user_id
    /\ Cardinality(history) < next_id - 1

\* C19: HistoryRepository.delete_all(user_id) removes every History row of
\* that user and raises nothing, leaves the table unchanged when the user has
\* no row, and in both cases leaves every History row of other users and every
\* Account row unchanged.
C19_Step ==
    \A user_id \in RepoUsers :
        RepoDeleteAll(user_id)
            => /\ call'.gave = [raised |-> "none"]
               /\ \A row \in history' : row.user_id # user_id
               /\ \A row \in history : row.user_id # user_id => row \in history'
               /\ history' \subseteq history
               /\ (\A row \in history : row.user_id # user_id) => history' = history
               /\ account' = account

C19_DeleteAllRemovesOnlyTheRowsOfTheUser == [][C19_Step]_vars

\* delete_all removed the row of one user and left the row of the other user
\* and an account
C19_Witness ==
    /\ call.op = "delete_all"
    /\ next_id = MaxRepoRows + 1
    /\ Cardinality(history) = 1
    /\ \A row \in history : row.user_id # call.args.user_id
    /\ account # {}

\* C20: from empty storage, register(player1, pass1234, 25, male), then
\* login(player1, pass1234), then one history addition with the genre action
\* and the price (0, 5000): login returned true, and search for player1 then
\* returns exactly one record, whose price is "0en ~ 5000en".
C20_ScenarioEndsWithOneRecord ==
    /\ call.scenario = [made |-> 1] => call.gave = [raised |-> "none"]
    /\ call.scenario = [made |-> 2] => call.gave = [value |-> TRUE]
    /\ call.scenario = [made |-> 3] => call.gave = [raised |-> "none"]
    /\ call.scenario = [made |-> 4]
           => /\ Len(call.gave.value) = 1
              /\ call.gave.value[1].user_id = player1
              /\ call.gave.value[1].genre = <<"ACTION">>
              /\ call.gave.value[1].price
                     = <<"0", "en", " ", "~", " ", "5", "0", "0", "0", "en">>

\* The four calls of the scenario were made in order
C20_Witness ==
    /\ call.scenario = [made |-> 4]
    /\ call.op = "search"

\* C21: session state starts as {page = Login, user = absent}, and in every
\* reachable state the page identifier of every session is one of the six
\* identifiers in the representation that the page lookup accepts.
C21_PageIdIsAlwaysAcceptedByTheLookup ==
    /\ \A s \in DOMAIN session_state :
           session_state[s] = [PAGE_ID |-> Name("LOGIN"), USER_ID |-> None]
    /\ [](\A s \in DOMAIN session_state :
              "page" \in DOMAIN PageFactory_get_page(session_state[s].PAGE_ID))

\* C22: with two sessions on the same storage, no action of one session
\* (login, logout, navigation, registration, account deletion) changes the
\* page identifier or the user of the other session.
C22_Step ==
    \A s \in Clients :
        last'.session = s
            => \A other \in Clients \ {s} : session_state'[other] = session_state[other]

C22_SessionsDoNotTouchEachOther == [][C22_Step]_vars

\* One session completed the deletion of the account that the other session
\* is still logged in with, on another page
C22_Witness ==
    /\ last.session = "s1"
    /\ last.shown = <<"delete_success", "not_logged_in">>
    /\ session_state["s1"] = [PAGE_ID |-> Member("LOGIN"), USER_ID |-> None]
    /\ session_state["s2"].USER_ID = last.event.arg
    /\ session_state["s2"].PAGE_ID = Member("DELETE")

\* C23: once an Account row is created no operation changes its user_id,
\* hashed_password, age or sex: from its creation to its deletion the row of a
\* user id is the same row in every state, and the only row of that id.
C23_Step ==
    /\ \A row \in account : \A kept \in account' :
           kept.user_id = row.user_id => kept = row
    /\ \A one \in account' : \A two \in account' :
           one.user_id = two.user_id => one = two

C23_AccountRowsNeverChange == [][C23_Step]_vars

\* A login succeeded while two accounts and a history row are stored
C23_Witness ==
    /\ Cardinality(account) = 2
    /\ history # {}
    /\ last.event = LoginButton
    /\ Len(last.shown) >= 1
    /\ last.shown[1] = "login_success"

\* C24: the account-deletion action deletes the user's History rows first and
\* the Account row second, so in every state between its two repository calls
\* the History rows of the user are gone and the Account row still exists.
C24_AccountRowOutlivesHistoryRows ==
    \A s \in DOMAIN session_state :
        deleting[s] # None
            => /\ get_account(account, deleting[s].user_id) # None
               /\ \A row \in history : row.user_id # deleting[s].user_id

\* C25: after a navigation button has set the session's page id to a target
\* page, the render that follows shows the target page: the page rendered is
\* the page the lookup gives for the identifier the helper wrote.
C25_Step ==
    \A s \in DOMAIN session_state, page \in PageIDNames :
        \A button \in render(page, account, history, session_state[s]).buttons :
            NavClick(s, page, button)
                => /\ session_state'[s].PAGE_ID = button.arg
                   /\ PageFactory_get_page(session_state'[s].PAGE_ID) = [page |-> last'.page]

C25_RenderFollowsTheWrittenPageId == [][C25_Step]_vars

\* The run that just ended showed this message first
Showed(message) == Len(last'.shown) >= 1 /\ last'.shown[1] = message

\* The session's slots say: nobody logged in, page Login
LoggedOutAtLogin(state) ==
    /\ state.USER_ID = None
    /\ state.PAGE_ID \in {Member("LOGIN"), Name("LOGIN")}

\* C26: a session's user changes only on these events: a successful login or
\* registration sets it to the submitted user id; logout and a completed
\* account deletion set it to absent and the page to Login; failed logins and
\* registrations, navigation, recommendation, history deletion and every other
\* run leave it unchanged.
C26_Step ==
    \A s \in DOMAIN session_state :
        /\ \A form \in LoginForms :
               LoginSubmit(s, form.user_id, form.password)
                   => session_state'[s].USER_ID
                          = IF Showed("login_success") THEN [user_id |-> form.user_id]
                            ELSE session_state[s].USER_ID
        /\ \A form \in RegisterForms, salt \in Salts :
               RegisterSubmit(s, form.user_id, form.password, form.age, form.sex, salt)
                   => session_state'[s].USER_ID
                          = IF Showed("register_success") THEN [user_id |-> form.user_id]
                            ELSE session_state[s].USER_ID
        /\ \A page \in PageIDNames :
               Logout(s, page) => LoggedOutAtLogin(session_state'[s])
        /\ DeleteHistory(s) => LoggedOutAtLogin(session_state'[s])
        /\ session_state'[s].USER_ID # session_state[s].USER_ID
               => /\ last'.session = s
                  /\ \/ last'.event = LoginButton /\ Showed("login_success")
                     \/ last'.event = RegisterButton /\ Showed("register_success")
                     \/ last'.event = Button("logout", "__logout", None)
                     \/ deleting[s] # None /\ Showed("delete_success")

C26_UserChangesOnlyOnLoginRegisterLogoutDelete == [][C26_Step]_vars

\* A logout left the session without a user, on page Login, its account kept
C26_Witness ==
    /\ last.event = Button("logout", "__logout", None)
    /\ LoggedOutAtLogin(session_state[last.session])
    /\ account # {}

\* C27: AccountRepository.delete(user_id) deletes the Account row if it is
\* present; if no Account row has that id the call raises nothing and leaves
\* both tables unchanged, and the delete-account action that made it goes on to
\* its completion (history cleared, user absent, page Login).
C27_Step ==
    \A s \in DOMAIN session_state :
        \A button \in DeletePage_render(session_state[s]).buttons :
            DeleteAccount(s, button)
                => IF \E row \in account : row.user_id = button.arg.user_id
                   THEN account' = {row \in account : row.user_id # button.arg.user_id}
                   ELSE /\ account' = account
                        /\ history' = history
                        /\ last'.raised = "none"
                        /\ deleting'[s] = button.arg

C27_DeleteOfAbsentAccountIsANoOp == [][C27_Step]_vars

\* Every session with a user has an Account row of that user id
C28_LoggedInUsersHaveAccounts ==
    \A s \in DOMAIN session_state :
        session_state[s].USER_ID # None
            => \E row \in account : row.user_id = session_state[s].USER_ID.user_id

\* Every History row a step writes belongs to an Account row stored at that
\* moment
C28_WritesBelongToAccounts ==
    \A written \in history' \ history :
        \E row \in account : row.user_id = written.user_id

\* C28: in every reachable state, several sessions included, a session whose
\* user is present has an Account row of that user id in storage, so every
\* History row the recommend page writes belongs to an account that exists at
\* the moment of the write.
C28_SessionUserAlwaysHasAnAccount ==
    /\ []C28_LoggedInUsersHaveAccounts
    /\ [][C28_WritesBelongToAccounts]_vars

\* C29: a newly registered account never inherits history: right after a
\* successful registration of user id u, HistoryRepository.search(u) is empty,
\* whatever deletions of an earlier account of that id and whatever other
\* sessions of that user came before.
C29_Step ==
    \A s \in DOMAIN session_state :
        \A form \in SharedForms, salt \in Salts :
            /\ RegisterSubmit(s, form.user_id, form.password, form.age, form.sex, salt)
            /\ account' # account
            => HistoryRepository_search(history', [user_id |-> form.user_id]) = <<>>

C29_NewAccountHasNoHistory == [][C29_Step]_vars

\* C30: a failed login on the login page gives the same observable outcome
\* whether the id or password is malformed, no account has the id, or the
\* password does not match: the one error message, the login form offered
\* again, nothing raised, the session's user still absent and storage
\* unchanged.  The outcome does not depend on the account table, so two runs
\* that differ only in whether the account exists look the same.
C30_Step ==
    \A s \in DOMAIN session_state :
        \A form \in LoginForms :
            /\ LoginSubmit(s, form.user_id, form.password)
            /\ ~ Showed("login_success")
            => /\ last'.shown = <<"login_failed">>
               /\ last'.raised = "none"
               /\ last'.buttons = { Button("login", "submit", None),
                                    Button("register", "set_page_id", Member("REGISTER")) }
               /\ session_state'[s].USER_ID = None
               /\ session_state' = session_state
               /\ account' = account
               /\ history' = history

C30_FailedLoginsLookTheSame == [][C30_Step]_vars

\* A login with a well-formed id and password failed while every user id of
\* the model has an account: the password did not match
C30_Witness ==
    /\ last.event = LoginButton
    /\ last.shown = <<"login_failed">>
    /\ last.calls = <<"UserRepository.login">>
    /\ Cardinality(account) = 2

=============================================================================
